---- MODULE Spec2Model ----
(***************************************************************************)
(* A state-machine model of examples/plot_stc.ipynb: one run of the        *)
(* notebook, statement by statement, together with the outputs the         *)
(* notebook file records for its third code cell.                          *)
(*                                                                         *)
(* Strings that the notebook takes apart or puts together (paths) are      *)
(* sequences of tokens, "/" being the separator token.  Times are in       *)
(* hundredths of a second, alpha in hundredths.  A notebook variable is    *)
(* the sequence of the values assigned to it so far: <<>> is an unbound    *)
(* name, and the last element is the current value.                        *)
(***************************************************************************)
EXTENDS Integers, Sequences, FiniteSets, TLC

VARIABLES pc, namespace, env, calls, dataPathRet, readArgs, readRet,
          plotCalls, outputs, libpos, raised, thrown, history, cellRuns

vars == <<pc, namespace, env, calls, dataPathRet, readArgs, readRet,
          plotCalls, outputs, libpos, raised, thrown, history, cellRuns>>

\* ---------------------------------------------------------------- bounds
\* Longest directory chain of the dataset location data_path() may return.
MaxDepth == 2
\* Number of distinct source-estimate objects read_source_estimate may return.
MaxStcId == 3

\* ---------------------------------------------------------------- inputs
DirNames == {"mne_data", "MNE-sample-data"}

\* What an external call can raise.
Exceptions == {"IOError", "RuntimeError"}

RECURSIVE Chain(_)
\* d1/d2/.../dn as a token sequence.
Chain(ds) ==
    IF Len(ds) = 0 THEN <<>>
    ELSE IF Len(ds) = 1 THEN <<ds[1]>>
    ELSE <<ds[1], "/">> \o Chain(Tail(ds))

\* The locations mne.datasets.sample.data_path() may return: relative or
\* absolute, with or without a trailing separator, never the empty string.
DataPaths ==
    { (IF abs THEN <<"/">> ELSE <<>>) \o Chain(ds) \o (IF trail THEN <<"/">> ELSE <<>>) :
        abs \in BOOLEAN, trail \in BOOLEAN,
        ds \in UNION { [1..n -> DirNames] : n \in 1..MaxDepth } }

\* -------------------------------------------------- the notebook's literals
Vars == {"data_path", "subject", "subjects_dir", "act_data", "stc", "fig"}

ExternalCalls == {"data_path", "read_source_estimate", "plot_source_estimates"}

CodeCells == 1..4

SubjectsLit == <<"subjects">>

ActDataLit == <<"MEG", "/", "sample", "/", "sample_audvis-meg-eeg">>

\* The keyword arguments written at the call of plot_source_estimates.
PlotKwargsWrongSteps ==
    [surface |-> "inflated", hemi |-> "both", colormap |-> "hot",
     smoothing_steps |-> 5, transparent |-> FALSE, alpha |-> 100,
     clim |-> "auto", figure |-> "None", size |-> 800,
     background |-> "black", initial_time |-> 23]

PlotKwargsLateTime ==
    [surface |-> "inflated", hemi |-> "both", colormap |-> "hot",
     smoothing_steps |-> 10, transparent |-> FALSE, alpha |-> 100,
     clim |-> "auto", figure |-> "None", size |-> 800,
     background |-> "black", initial_time |-> 25]

PlotKwargs ==
    [surface |-> "inflated", hemi |-> "both", colormap |-> "hot",
     smoothing_steps |-> 10, transparent |-> FALSE, alpha |-> 100,
     clim |-> "auto", figure |-> "None", size |-> 800,
     background |-> "black", initial_time |-> 23]

\* ------------------------------------------------ the recorded cell output
\* First stdout line of cell 3: the printed stc.times.
RecordedTimes ==
    <<0, 1, 2, 3, 4, 5, 6, 7, 8, 9, 10, 11, 12, 13,
      14, 15, 16, 17, 18, 19, 20, 21, 22, 23, 24>>

Line(k, v) == [kind |-> k, val |-> v]

\* The stdout lines recorded after the times, written while
\* plot_source_estimates runs.
RecordedLog ==
    <<Line("morphing", <<>>),
      Line("lh_map", <<>>), Line("rh_map", <<>>),
      Line("lh_map", <<>>), Line("rh_map", <<>>),
      Line("smooth", <<10>>), Line("smooth", <<10>>),
      Line("done", <<>>)>>

\* The display_data output that follows the stream output.
Widget == Line("widget", <<>>)

\* ------------------------------------------------------------ os.path.join
\* posixpath.join(a, b) on token sequences.
join(a, b) ==
    IF Len(b) > 0 /\ b[1] = "/" THEN b
    ELSE IF Len(a) = 0 \/ a[Len(a)] = "/" THEN a \o b
    ELSE a \o <<"/">> \o b

\* --------------------------------------------------------- program order
PcOrderNoShow ==
    <<"import_path", "import_mne", "import_rse", "import_np", "import_g3d",
      "data_path", "subject", "subjects_dir", "act_data", "read", "print",
      "plot", "plot_log", "plot_return", "cell4", "finished">>

PcOrderPlotFirst ==
    <<"import_path", "import_mne", "import_rse", "import_np", "import_g3d",
      "data_path", "subject", "subjects_dir", "act_data", "plot", "plot_log",
      "plot_show", "plot_return", "read", "print", "cell4", "finished">>

\* The statements of the code cells top to bottom; "plot_log", "plot_show"
\* and "plot_return" are the stages of the one plot_source_estimates call.
PcOrder ==
    <<"import_path", "import_mne", "import_rse", "import_np", "import_g3d",
      "data_path", "subject", "subjects_dir", "act_data", "read", "print",
      "plot", "plot_log", "plot_show", "plot_return", "cell4", "finished">>

Successor(p) ==
    LET i == CHOOSE k \in 1..Len(PcOrder) : PcOrder[k] = p
    IN  PcOrder[i + 1]

Bound(v) == env[v] /= <<>>

Value(v) == env[v][Len(env[v])]

Assign(v, x) == env' = [env EXCEPT ![v] = Append(@, x)]

\* ------------------------------------------------------------------- Init
Init ==
    /\ pc = "import_path"
    /\ namespace = {}
    /\ env = [v \in Vars |-> <<>>]
    /\ calls = [f \in ExternalCalls |-> 0]
    /\ dataPathRet = <<>>
    /\ readArgs = <<>>
    /\ readRet = <<>>
    /\ plotCalls = <<>>
    /\ outputs = <<>>
    /\ libpos = 0
    /\ raised = "None"
    /\ thrown = "None"
    /\ history = <<>>
    /\ cellRuns = [c \in CodeCells |-> 0]

\* ------------------------------------------------------------ exceptions
\* An exception leaves the cell: a swallowing handler would carry on.
Swallow(e) ==
    /\ pc' = Successor(pc)
    /\ raised' = raised

\* Nothing in the notebook catches: the exception ends the run.
Propagate(e) ==
    /\ pc' = "failed"
    /\ raised' = e

Raise(e) ==
    /\ thrown' = e
    /\ Propagate(e)

Step ==
    /\ pc' = Successor(pc)
    /\ UNCHANGED <<raised, thrown>>

Started(stmt) == history' = Append(history, stmt)

StartCell(c) == cellRuns' = [cellRuns EXCEPT ![c] = @ + 1]

\* ---------------------------------------------------------------- cell 1
\* One import statement binding name; a third-party import may fail.
Import(stmt, name, thirdParty) ==
    /\ pc = stmt
    /\ Started(stmt)
    /\ \/ /\ namespace' = namespace \cup {name}
          /\ Step
       \/ /\ thirdParty
          /\ Raise("ImportError")
          /\ UNCHANGED namespace
    /\ UNCHANGED <<env, calls, dataPathRet, readArgs, readRet, plotCalls,
                   outputs, libpos>>

ImportPath ==
    /\ Import("import_path", "path", FALSE)
    /\ StartCell(1)

ImportMne ==
    /\ Import("import_mne", "mne", TRUE)
    /\ UNCHANGED cellRuns

ImportReadSourceEstimate ==
    /\ Import("import_rse", "read_source_estimate", TRUE)
    /\ UNCHANGED cellRuns

ImportNumpy ==
    /\ Import("import_np", "np", TRUE)
    /\ UNCHANGED cellRuns

\* ---------------------------------------------------------------- cell 2
ImportMneG3d ==
    /\ Import("import_g3d", "mne_g3d", TRUE)
    /\ StartCell(2)

\* ---------------------------------------------------------------- cell 3
\* data_path = mne.datasets.sample.data_path()
ResolveDataPath ==
    /\ pc = "data_path"
    /\ Started("data_path")
    /\ StartCell(3)
    /\ IF "mne" \notin namespace
       THEN /\ Raise("NameError")
            /\ UNCHANGED <<env, calls, dataPathRet>>
       ELSE /\ calls' = [calls EXCEPT !["data_path"] = @ + 1]
            /\ \/ \E p \in DataPaths :
                    /\ dataPathRet' = Append(dataPathRet, p)
                    /\ Assign("data_path", p)
                    /\ Step
               \/ \E e \in Exceptions :
                    /\ Raise(e)
                    /\ UNCHANGED <<env, dataPathRet>>
    /\ UNCHANGED <<namespace, readArgs, readRet, plotCalls, outputs, libpos>>

AssignSubjectOther ==
    /\ pc = "subject"
    /\ Started("subject")
    /\ Assign("subject", "fsaverage")
    /\ Step
    /\ UNCHANGED <<namespace, calls, dataPathRet, readArgs, readRet,
                   plotCalls, outputs, libpos, cellRuns>>

\* subject = 'sample'
AssignSubject ==
    /\ pc = "subject"
    /\ Started("subject")
    /\ Assign("subject", "sample")
    /\ Step
    /\ UNCHANGED <<namespace, calls, dataPathRet, readArgs, readRet,
                   plotCalls, outputs, libpos, cellRuns>>

\* A statement v = path.join(data_path, lit).
AssignJoin(stmt, v, lit) ==
    /\ pc = stmt
    /\ Started(stmt)
    /\ IF "path" \notin namespace \/ ~Bound("data_path")
       THEN /\ Raise("NameError")
            /\ UNCHANGED env
       ELSE /\ Assign(v, join(Value("data_path"), lit))
            /\ Step
    /\ UNCHANGED <<namespace, calls, dataPathRet, readArgs, readRet,
                   plotCalls, outputs, libpos, cellRuns>>

\* subjects_dir = path.join(data_path, 'subjects')
AssignSubjectsDir ==
    /\ pc = "subjects_dir"
    /\ AssignJoin("subjects_dir", "subjects_dir", SubjectsLit)

\* act_data = path.join(data_path, 'MEG/sample/sample_audvis-meg-eeg')
AssignActDataClobber ==
    /\ pc = "act_data"
    /\ AssignJoin("act_data", "data_path", ActDataLit)

AssignActData ==
    /\ pc = "act_data"
    /\ AssignJoin("act_data", "act_data", ActDataLit)

\* The objects read_source_estimate may return for a file: the sample
\* recording, whose time axis is the one the cell printed.
StcObjects(file) ==
    { [id |-> i, file |-> file, times |-> RecordedTimes] : i \in 1..MaxStcId }

\* stc = read_source_estimate(act_data)
ReadSourceEstimate ==
    /\ pc = "read"
    /\ Started("read")
    /\ IF "read_source_estimate" \notin namespace \/ ~Bound("act_data")
       THEN /\ Raise("NameError")
            /\ UNCHANGED <<env, calls, readArgs, readRet>>
       ELSE /\ calls' = [calls EXCEPT !["read_source_estimate"] = @ + 1]
            /\ readArgs' = Append(readArgs, Value("act_data"))
            /\ \/ \E o \in StcObjects(Value("act_data")) :
                    /\ readRet' = Append(readRet, o)
                    /\ Assign("stc", o)
                    /\ Step
               \/ \E e \in Exceptions :
                    /\ Raise(e)
                    /\ UNCHANGED <<env, readRet>>
    /\ UNCHANGED <<namespace, dataPathRet, plotCalls, outputs, libpos, cellRuns>>

\* print(stc.times)
PrintTimes ==
    /\ pc = "print"
    /\ Started("print")
    /\ IF ~Bound("stc")
       THEN /\ Raise("NameError")
            /\ UNCHANGED outputs
       ELSE /\ outputs' = Append(outputs, Line("times", Value("stc").times))
            /\ Step
    /\ UNCHANGED <<namespace, env, calls, dataPathRet, readArgs, readRet,
                   plotCalls, libpos, cellRuns>>

PlotArgsDataPath ==
    [stc |-> Value("stc"), subject |-> Value("subject"),
     subjects_dir |-> Value("data_path")] @@ PlotKwargs

\* The arguments of the one plot_source_estimates call.
PlotArgs ==
    [stc |-> Value("stc"), subject |-> Value("subject"),
     subjects_dir |-> Value("subjects_dir")] @@ PlotKwargs

\* fig = mne_g3d.viz.plot_source_estimates(stc, subject=subject, ...):
\* the call is made.
PlotCall ==
    /\ pc = "plot"
    /\ Started("plot")
    /\ IF \/ "mne_g3d" \notin namespace
          \/ \E v \in {"stc", "subject", "subjects_dir"} : ~Bound(v)
       THEN /\ Raise("NameError")
            /\ UNCHANGED <<calls, plotCalls>>
       ELSE /\ calls' = [calls EXCEPT !["plot_source_estimates"] = @ + 1]
            /\ plotCalls' = Append(plotCalls, PlotArgs)
            /\ Step
    /\ UNCHANGED <<namespace, env, dataPathRet, readArgs, readRet, outputs,
                   libpos, cellRuns>>

\* The call writes its next log line to stdout, or fails.
PlotLog ==
    /\ pc = "plot_log"
    /\ \/ /\ libpos' = libpos + 1
          /\ outputs' = Append(outputs, RecordedLog[libpos + 1])
          /\ IF libpos + 1 = Len(RecordedLog)
             THEN Step
             ELSE UNCHANGED <<pc, raised, thrown>>
       \/ /\ \E e \in Exceptions : Raise(e)
          /\ UNCHANGED <<libpos, outputs>>
    /\ UNCHANGED <<namespace, env, calls, dataPathRet, readArgs, readRet,
                   plotCalls, history, cellRuns>>

\* The call displays the widget (the cell's display_data output), or fails.
PlotShow ==
    /\ pc = "plot_show"
    /\ \/ /\ outputs' = Append(outputs, Widget)
          /\ Step
       \/ /\ \E e \in Exceptions : Raise(e)
          /\ UNCHANGED outputs
    /\ UNCHANGED <<namespace, env, calls, dataPathRet, readArgs, readRet,
                   plotCalls, libpos, history, cellRuns>>

\* The call returns and its result is bound to fig.
PlotReturn ==
    /\ pc = "plot_return"
    /\ Assign("fig", "Figure")
    /\ Step
    /\ UNCHANGED <<namespace, calls, dataPathRet, readArgs, readRet,
                   plotCalls, outputs, libpos, history, cellRuns>>

\* ---------------------------------------------------------------- cell 4
\* The trailing cell has no source.
EmptyCell ==
    /\ pc = "cell4"
    /\ pc' = "finished"
    /\ UNCHANGED <<namespace, env, calls, dataPathRet, readArgs, readRet,
                   plotCalls, outputs, libpos, raised, thrown, history,
                   cellRuns>>

Next ==
    \/ ImportPath
    \/ ImportMne
    \/ ImportReadSourceEstimate
    \/ ImportNumpy
    \/ ImportMneG3d
    \/ ResolveDataPath
    \/ AssignSubject
    \/ AssignSubjectsDir
    \/ AssignActData
    \/ ReadSourceEstimate
    \/ PrintTimes
    \/ PlotCall
    \/ PlotLog
    \/ PlotShow
    \/ PlotReturn
    \/ EmptyCell

Spec == Init /\ [][Next]_vars

\* The kernel runs the next statement whenever there is one.
LiveSpec == Init /\ [][Next]_vars /\ WF_vars(Next)

\* ================================================================ claims
Last(s) == s[Len(s)]

IsPrefix(s, t) == Len(s) <= Len(t) /\ s = SubSeq(t, 1, Len(s))

Indices(kind) == { i \in 1..Len(outputs) : outputs[i].kind = kind }

WidgetShown == Indices("widget") /= {}

PlotReturned == Bound("fig")

\* The order of the statements as the claim gives it.
NotebookOrder ==
    <<"import_path", "import_mne", "import_rse", "import_np", "import_g3d",
      "data_path", "subject", "subjects_dir", "act_data", "read", "print",
      "plot">>

StatementsInOrder ==
    /\ IsPrefix(history, NotebookOrder)
    /\ calls["data_path"] > 0 =>
          {"mne", "read_source_estimate", "np", "mne_g3d"} \subseteq namespace
    /\ plotCalls /= <<>> => readRet /= <<>>
    /\ \A f \in ExternalCalls : calls[f] <= 1
    /\ Cardinality(Indices("widget")) <= 1

\* C1 as stated: the statements run once each in the notebook's order (the
\* imports before data_path, the load before the plot call), and the widget
\* is displayed only after plot_source_estimates has returned.
C1_WidgetAfterPlotReturns ==
    /\ StatementsInOrder
    /\ WidgetShown => PlotReturned

\* C1 amended: the statements run once each in the notebook's order (the
\* imports before data_path, the load before the plot call); the widget is
\* displayed while plot_source_estimates runs, after its "[done]" line and
\* before it returns, so whenever fig is bound the widget has been displayed.
C1_WidgetDuringPlot ==
    /\ StatementsInOrder
    /\ WidgetShown =>
          /\ plotCalls /= <<>>
          /\ \E d \in Indices("done") : \A w \in Indices("widget") : d < w
    /\ PlotReturned => WidgetShown

C1_Witness == pc = "finished" /\ PlotReturned /\ WidgetShown

FailedAt(stmt) == pc = "failed" /\ history /= <<>> /\ Last(history) = stmt

\* C2: an exception raised by an external call leaves the notebook as it was
\* raised; the call is not made again, its target is not given a value, and
\* no later statement runs: after a failed load there is no plot call and no
\* widget.
C2_FailurePropagates ==
    /\ [](/\ thrown /= "None" => (pc = "failed" /\ raised = thrown)
          /\ raised /= "None" => (pc = "failed" /\ raised = thrown)
          /\ \A f \in ExternalCalls : calls[f] <= 1
          /\ FailedAt("data_path") =>
                (~Bound("data_path") /\ readArgs = <<>> /\ plotCalls = <<>>
                 /\ ~WidgetShown)
          /\ FailedAt("read") =>
                (~Bound("stc") /\ outputs = <<>> /\ plotCalls = <<>>
                 /\ ~WidgetShown)
          /\ FailedAt("plot") => ~Bound("fig"))
    /\ [][pc = "failed" => UNCHANGED vars]_vars

C2_Witness ==
    /\ FailedAt("read")
    /\ thrown \in Exceptions
    /\ calls["read_source_estimate"] = 1

\* C3: plot_source_estimates is called at most once, exactly once in a run
\* that finishes, and with the hard-coded configuration and subject 'sample'.
C3_PlotConfigVerbatim ==
    /\ Len(plotCalls) <= 1
    /\ Len(plotCalls) = calls["plot_source_estimates"]
    /\ pc = "finished" => Len(plotCalls) = 1
    /\ \A i \in 1..Len(plotCalls) :
          LET a == plotCalls[i] IN
          /\ a.surface = "inflated"
          /\ a.hemi = "both"
          /\ a.colormap = "hot"
          /\ a.smoothing_steps = 10
          /\ a.transparent = FALSE
          /\ a.alpha = 100
          /\ a.clim = "auto"
          /\ a.figure = "None"
          /\ a.size = 800
          /\ a.background = "black"
          /\ a.initial_time = 23
          /\ a.subject = "sample"

C3_Witness == pc = "finished" /\ Len(plotCalls) = 1

\* The directory and file names of a path, and whether it is absolute.
Parts(p) == SelectSeq(p, LAMBDA t : t /= "/")

IsAbs(p) == Len(p) > 0 /\ p[1] = "/"

\* Names are separated by exactly one separator.
WellFormed(p) ==
    \A i \in 1..(Len(p) - 1) : (p[i] = "/") /= (p[i + 1] = "/")

Under(p, root, names) ==
    /\ WellFormed(p)
    /\ IsAbs(p) = IsAbs(root)
    /\ Parts(p) = Parts(root) \o names

\* C4: the object plotted is the object read_source_estimate returned for
\* <data_path>/MEG/sample/sample_audvis-meg-eeg, stc keeps that value from
\* the load on, and subjects_dir is <data_path>/subjects for the same
\* data_path.
C4_OnlyPathsContributed ==
    /\ Bound("stc") => (Len(readRet) = 1 /\ env["stc"] = readRet)
    /\ \A i \in 1..Len(readArgs) :
          /\ Len(dataPathRet) = 1
          /\ Under(readArgs[i], dataPathRet[1],
                   <<"MEG", "sample", "sample_audvis-meg-eeg">>)
    /\ \A i \in 1..Len(readRet) : readRet[i].file = readArgs[i]
    /\ \A i \in 1..Len(plotCalls) :
          /\ Len(readRet) = 1
          /\ plotCalls[i].stc = readRet[1]
          /\ Under(plotCalls[i].subjects_dir, dataPathRet[1], <<"subjects">>)

C4_Witness ==
    /\ Len(plotCalls) = 1
    /\ Indices("times") /= {}
    /\ ~IsAbs(dataPathRet[1])
    /\ Last(dataPathRet[1]) /= "/"

\* C5: every notebook variable is assigned at most once, exactly once in a
\* run that finishes, and no name is read before it is bound.
C5_AssignedOnce ==
    /\ \A v \in Vars : Len(env[v]) <= 1
    /\ thrown /= "NameError"
    /\ raised /= "NameError"
    /\ pc = "finished" => \A v \in Vars : Len(env[v]) = 1

C5_Witness == pc = "finished" /\ \A v \in Vars : Bound(v)

\* C6: a run ends, finished or failed; a run that finishes has run each of
\* the three cells that hold code once, its output is the stream closed by
\* "[done]" followed by the widget, and the trailing cell changes nothing.
C6_RunTerminates ==
    /\ <>(pc \in {"finished", "failed"})
    /\ [](pc = "finished" =>
            /\ \A c \in 1..3 : cellRuns[c] = 1
            /\ cellRuns[4] = 0
            /\ raised = "None"
            /\ Len(outputs) >= 2
            /\ outputs[Len(outputs) - 1].kind = "done"
            /\ Last(outputs).kind = "widget"
            /\ \A k \in {"times", "morphing", "done", "widget"} :
                  Cardinality(Indices(k)) = 1)
    /\ [][pc = "cell4" =>
            UNCHANGED <<namespace, env, calls, outputs, history, cellRuns,
                        raised>>]_vars

C6_Witness == pc = "finished" /\ Last(outputs).kind = "widget"

Hemispheres(hemi) ==
    IF hemi = "both" THEN {"lh", "rh"} ELSE {hemi}

\* C7: every smoothing line reports the configured smoothing_steps and comes
\* after "Morphing data..." and after a left and a right map read; once
\* "[done]" is logged there are exactly two smoothing lines, one for each
\* hemisphere of hemi='both', and all map and smoothing lines precede it.
C7_SmoothingPerHemisphere ==
    /\ \A s \in Indices("smooth") :
          /\ plotCalls /= <<>>
          /\ outputs[s].val = <<plotCalls[1].smoothing_steps>>
          /\ \E m \in Indices("morphing") : m < s
          /\ \E l \in Indices("lh_map") : l < s
          /\ \E r \in Indices("rh_map") : r < s
    /\ \A r \in Indices("lh_map") \cup Indices("rh_map") :
          /\ \E m \in Indices("morphing") : m < r
          /\ \A s \in Indices("smooth") : r < s
    /\ \A d \in Indices("done") :
          /\ plotCalls[1].hemi = "both"
          /\ Cardinality(Indices("smooth")) =
                Cardinality(Hemispheres(plotCalls[1].hemi))
          /\ Cardinality(Indices("smooth")) = 2
          /\ \A s \in Indices("smooth") \cup Indices("lh_map")
                       \cup Indices("rh_map") \cup Indices("morphing") : s < d

C7_Witness == Indices("done") /= {} /\ Cardinality(Indices("smooth")) = 2

\* C8: the printed time axis is the 25 samples 0..24 (hundredths of a
\* second) and the initial_time passed to the plot call is one of them, at
\* index 23, within 0..24.
C8_InitialTimeIsSample ==
    /\ \A i \in Indices("times") :
          /\ Len(outputs[i].val) = 25
          /\ \A k \in 1..25 : outputs[i].val[k] = k - 1
    /\ \A i \in 1..Len(plotCalls) :
          LET times == plotCalls[i].stc.times
              t == plotCalls[i].initial_time
              at == { k \in 0..(Len(times) - 1) : times[k + 1] = t }
          IN  /\ Indices("times") /= {}
              /\ times = outputs[1].val
              /\ at = {23}
              /\ at \subseteq 0..24

C8_Witness == Len(plotCalls) = 1 /\ Indices("times") = {1}

====
